---- MODULE Spec2Model ----
(***************************************************************************)
(* Model of the AutoAgent web client (frontend/src/App.jsx): the React     *)
(* component's state, its event handlers, the continuations that run when  *)
(* an axios request resolves, and the backend session the requests reach.  *)
(*                                                                         *)
(* A request is a record that lives in `requests` from the moment a        *)
(* handler issues it until the awaiting continuation runs.  The backend    *)
(* handles a request in a step of its own (phase "sent" -> "replied"), so  *)
(* a response can be older than the backend's state when it is applied.    *)
(*                                                                         *)
(* React keeps the state of a component only while it is mounted: a        *)
(* setter called by a continuation after unmount is dropped by React, but  *)
(* everything else the continuation does (alert, a further request) still  *)
(* happens.                                                                *)
(***************************************************************************)
EXTENDS Integers, Sequences, FiniteSets, TLC

VARIABLES
    mounted,          \* the component is mounted (state is live)
    initialized,      \* useState(false)
    config,           \* useState({...})
    loading,          \* useState(false)
    messages,         \* useState([])
    input,            \* useState('')
    availableAgents,  \* useState([])
    currentAgent,     \* useState(null)
    uploading,        \* useState(false)
    statusMessage,    \* useState('')
    errorMessage,     \* useState('')
    lastAlert,        \* the text of the latest window.alert ("" before any)
    requests,         \* axios requests whose promise is unresolved
    issued,           \* number of requests issued so far
    backend           \* the backend session behind /api

vars == <<mounted, initialized, config, loading, messages, input,
          availableAgents, currentAgent, uploading, statusMessage,
          errorMessage, lastAlert, requests, issued, backend>>

\* the React state of the component
clientState == <<initialized, config, loading, messages, input,
                 availableAgents, currentAgent, uploading, statusMessage,
                 errorMessage>>

-----------------------------------------------------------------------------
(* Bounds *)

MaxRequests == 3     \* requests issued in one run
MaxFiles    == 1     \* files in one file-selection event

-----------------------------------------------------------------------------
(* Values *)

null == "null"       \* JavaScript null / undefined

RECURSIVE SeqsUpTo(_, _)
SeqsUpTo(S, n) ==
    IF n = 0 THEN {<<>>}
    ELSE LET shorter == SeqsUpTo(S, n - 1)
         IN  shorter \cup {Append(s, c) : s \in shorter, c \in S}

\* the values typed into the message box, strings as sequences of
\* characters: empty, whitespace only, and text within whitespace
Inputs == {<<>>, <<" ", " ">>, <<" ", "a", " ">>}

\* the file lists a file-selection event can carry
FileLists == SeqsUpTo({"a.txt"}, MaxFiles)

DefaultConfig ==
    [container_name |-> "auto_agent",
     port           |-> 12347,
     test_pull_name |-> "autoagent_mirror",
     git_clone      |-> TRUE,
     local_env      |-> FALSE,
     model          |-> "gpt-4o-2024-08-06"]

\* the values the operator puts into the fields of the setup form: a text
\* field, the number field and a checkbox are edited, the rest keep their
\* defaults
FieldValues ==
    [container_name |-> {"auto_agent", "box"},
     port           |-> {12347, 8080},
     test_pull_name |-> {"autoagent_mirror"},
     git_clone      |-> BOOLEAN,
     local_env      |-> {FALSE},
     model          |-> {"gpt-4o-2024-08-06"}]

ConfigFields == DOMAIN DefaultConfig

\* String.prototype.trim on a sequence of characters
RECURSIVE TrimStart(_)
TrimStart(s) ==
    IF s = <<>> THEN <<>>
    ELSE IF Head(s) = " " THEN TrimStart(Tail(s)) ELSE s

RECURSIVE TrimEnd(_)
TrimEnd(s) ==
    IF s = <<>> THEN <<>>
    ELSE IF s[Len(s)] = " " THEN TrimEnd(SubSeq(s, 1, Len(s) - 1)) ELSE s

\* mutant of Trim: the guard reads `!input`, nothing is trimmed
NoTrim(s) == s

Trim(s) == TrimEnd(TrimStart(s))

\* Array.prototype.join(', ') on a sequence of strings
RECURSIVE Join(_)
Join(names) ==
    IF names = <<>> THEN ""
    ELSE IF Len(names) = 1 THEN names[1]
    ELSE names[1] \o ", " \o Join(Tail(names))

-----------------------------------------------------------------------------
(* The backend session (GET /api/state, POST /api/init, /chat, /upload) *)

Agents == <<"coder", "browser">>

FreshBackend ==
    [initialized |-> FALSE, messages |-> <<>>, available_agents |-> <<>>,
     agent_name |-> null]

\* a backend that already holds a session (the page was reloaded)
RunningBackend ==
    [initialized |-> TRUE, messages |-> <<>>, available_agents |-> Agents,
     agent_name |-> "coder"]

\* an error: the response's detail (null when there is no response or no
\* detail) and the message of the axios error
NetworkError == [detail |-> null, message |-> "Network Error"]
HttpError(detail) ==
    [detail |-> detail, message |-> "Request failed with status code 400"]

Ok(data)   == [ok |-> TRUE, data |-> data]
Fail(err)  == [ok |-> FALSE, err |-> err]
NoReply    == [ok |-> FALSE, err |-> NetworkError]

\* GET /api/state -> { initialized, messages, available_agents, agent_name }
StateReply(b) ==
    Ok([initialized |-> b.initialized, messages |-> b.messages,
        available_agents |-> b.available_agents, agent_name |-> b.agent_name])


\* POST /api/init: the backend accepts the config and starts a session, or
\* rejects it with a 4xx that may carry a detail
InitDetails == {"Invalid port", null}

InitAccepted(b, body) ==
    [initialized |-> TRUE, messages |-> <<>>, available_agents |-> Agents,
     agent_name |-> Agents[1]]

\* POST /api/chat { message } -> { response, agent_name, messages }: the
\* history grows by the user turn and the answering agent's turn
ChatAccepted(b, body, agent) ==
    [b EXCEPT !.messages = b.messages \o
                  << [role |-> "user", content |-> body],
                     [role |-> "assistant", content |-> <<"o", "k">>] >>,
              !.agent_name = agent]

ChatReply(b) ==
    Ok([response |-> <<"o", "k">>, agent_name |-> b.agent_name,
        messages |-> b.messages])

\* POST /api/upload (multipart, field files) -> { uploaded_files }
UploadReply(body) == Ok([uploaded_files |-> body])

NotInitialized == Fail(HttpError("Session not initialized"))

\* GET /api/state answered with an error status that carries a detail
StateUnavailable == Fail(HttpError("State unavailable"))

-----------------------------------------------------------------------------
(* Requests in flight *)

\* a request as issued: kind is the endpoint, origin the caller of
\* checkState ("mount", "refresh" or "init"; null for the other kinds)
Request(kind, origin, body) ==
    [kind |-> kind, origin |-> origin, body |-> body, phase |-> "sent",
     reply |-> NoReply]

InFlight == DOMAIN requests

InFlightOf(kind) == {id \in InFlight : requests[id].kind = kind}

\* an init in flight will issue one more request, its checkState
Reserved == Cardinality(InFlightOf("init"))

\* the slot a new request takes: the lowest one that is free
FreeSlot == CHOOSE n \in 1..(Cardinality(InFlight) + 1) :
                /\ n \notin InFlight
                /\ \A k \in 1..(n - 1) : k \in InFlight

Issue(r) ==
    /\ issued + Reserved < MaxRequests
    /\ issued' = issued + 1
    /\ requests' = [id \in InFlight \cup {FreeSlot} |->
                        IF id = FreeSlot THEN r ELSE requests[id]]

Settle(id) ==
    requests' = [i \in InFlight \ {id} |-> requests[i]]

\* the awaited promise resolves with the backend's 2xx reply
Resolves(id) ==
    /\ requests[id].phase = "replied"
    /\ requests[id].reply.ok

\* the errors the awaited promise can reject with: the transport fails at any
\* time, or the backend has replied with an error status
Rejections(id) ==
    {NetworkError} \cup
    (IF requests[id].phase = "replied" /\ ~requests[id].reply.ok
     THEN {requests[id].reply.err} ELSE {})

\* a state setter of a continuation: React drops it once unmounted
Live(new, old) == IF mounted THEN new ELSE old

\* err.response?.data?.detail || err.message
ErrorText(err) ==
    IF err.detail # null /\ err.detail # "" THEN err.detail ELSE err.message

-----------------------------------------------------------------------------
(* Initial state: useState defaults, and the mount effect has called *)
(* checkState (React runs the effect before it handles any event)     *)

Init ==
    /\ mounted = TRUE
    /\ initialized = FALSE
    /\ config = DefaultConfig
    /\ loading = FALSE
    /\ messages = <<>>
    /\ input = <<>>
    /\ availableAgents = <<>>
    /\ currentAgent = null
    /\ uploading = FALSE
    /\ statusMessage = ""
    /\ errorMessage = ""
    /\ lastAlert = ""
    /\ issued = 1
    /\ requests = (1 :> Request("state", "mount", null))
    /\ backend \in {FreshBackend, RunningBackend}

-----------------------------------------------------------------------------
(* What is rendered: the setup form or the chat view *)

SetupView == mounted /\ ~initialized
ChatView  == mounted /\ initialized

-----------------------------------------------------------------------------
(* checkState *)

\* mutant of LoadSnapshot: the reply's messages are added to the displayed ones
LoadSnapshotAppends(data) ==
    IF data.initialized
    THEN /\ initialized' = Live(TRUE, initialized)
         /\ messages' = Live(messages \o data.messages, messages)
         /\ availableAgents' = Live(data.available_agents, availableAgents)
         /\ currentAgent' = Live(data.agent_name, currentAgent)
    ELSE UNCHANGED <<initialized, messages, availableAgents, currentAgent>>

\* mutant of LoadSnapshot: the reply is applied whatever its initialized says
LoadSnapshotAlways(data) ==
    /\ initialized' = Live(data.initialized, initialized)
    /\ messages' = Live(data.messages, messages)
    /\ availableAgents' = Live(data.available_agents, availableAgents)
    /\ currentAgent' = Live(data.agent_name, currentAgent)

\* the four setters of checkState's success branch, applied to a reply
LoadSnapshot(data) ==
    IF data.initialized
    THEN /\ initialized' = Live(TRUE, initialized)
         /\ messages' = Live(data.messages, messages)
         /\ availableAgents' = Live(data.available_agents, availableAgents)
         /\ currentAgent' = Live(data.agent_name, currentAgent)
    ELSE UNCHANGED <<initialized, messages, availableAgents, currentAgent>>

\* what handleInit does after `await checkState()` returns
AfterCheckState(origin) ==
    IF origin = "init"
    THEN /\ statusMessage' = Live("Session initialized successfully.",
                                  statusMessage)
         /\ loading' = Live(FALSE, loading)
    ELSE UNCHANGED <<statusMessage, loading>>

\* the 'Refresh state' button: onClick={checkState} disabled={loading}
RefreshState ==
    /\ ChatView
    /\ ~loading
    /\ Issue(Request("state", "refresh", null))
    /\ UNCHANGED <<mounted, clientState, lastAlert, backend>>

\* GET /api/state resolved
CheckStateSucceeds(id) ==
    /\ requests[id].kind = "state"
    /\ Resolves(id)
    /\ LoadSnapshot(requests[id].reply.data)
    /\ AfterCheckState(requests[id].origin)
    /\ Settle(id)
    /\ UNCHANGED <<mounted, config, input, uploading, errorMessage, lastAlert,
                   issued, backend>>

\* mutant of CheckStateFailsWith: the catch also resets the session
CheckStateFailsResets(id, err) ==
    /\ requests[id].kind = "state"
    /\ errorMessage' = Live("Could not refresh the session state.",
                            errorMessage)
    /\ initialized' = Live(FALSE, initialized)
    /\ messages' = Live(<<>>, messages)
    /\ AfterCheckState(requests[id].origin)
    /\ Settle(id)
    /\ UNCHANGED <<mounted, config, input, availableAgents, currentAgent,
                   uploading, lastAlert, issued, backend>>

\* GET /api/state rejected with err: the catch of checkState logs err to the
\* console and sets a fixed text
CheckStateFailsWith(id, err) ==
    /\ requests[id].kind = "state"
    /\ errorMessage' = Live("Could not refresh the session state.",
                            errorMessage)
    /\ AfterCheckState(requests[id].origin)
    /\ Settle(id)
    /\ UNCHANGED <<mounted, initialized, config, messages, input,
                   availableAgents, currentAgent, uploading, lastAlert, issued,
                   backend>>

CheckStateFails(id) ==
    \E err \in Rejections(id) : CheckStateFailsWith(id, err)

-----------------------------------------------------------------------------
(* The setup form and handleInit *)

\* onChange of a setup-form field: setConfig({...config, [f]: v})
SetConfig(f, v) ==
    /\ SetupView
    /\ config' = [config EXCEPT ![f] = v]
    /\ config' # config
    /\ UNCHANGED <<mounted, initialized, loading, messages, input,
                   availableAgents, currentAgent, uploading, statusMessage,
                   errorMessage, lastAlert, requests, issued, backend>>

\* submit of the setup form (its button is disabled while loading)
handleInit ==
    /\ SetupView
    /\ ~loading
    /\ issued + Reserved + 1 < MaxRequests   \* room for its checkState too
    /\ loading' = TRUE
    /\ Issue(Request("init", null, config))
    /\ UNCHANGED <<mounted, initialized, config, messages, input,
                   availableAgents, currentAgent, uploading, statusMessage,
                   errorMessage, lastAlert, backend>>

\* POST /api/init resolved: handleInit goes on to `await checkState()`
InitSucceeds(id) ==
    /\ requests[id].kind = "init"
    /\ Resolves(id)
    /\ issued' = issued + 1
    /\ requests' = [requests EXCEPT ![id] = Request("state", "init", null)]
    /\ UNCHANGED <<mounted, clientState, lastAlert, backend>>

\* mutant of InitFails: setLoading(false) is skipped when the request fails
InitFailsKeepsLoading(id) ==
    /\ requests[id].kind = "init"
    /\ \E err \in Rejections(id) :
        lastAlert' = "Initialization failed: " \o ErrorText(err)
    /\ errorMessage' =
         Live("Initialization failed. Please verify your settings.",
              errorMessage)
    /\ Settle(id)
    /\ UNCHANGED <<mounted, initialized, config, loading, messages, input,
                   availableAgents, currentAgent, uploading, statusMessage,
                   issued, backend>>

\* POST /api/init rejected with err: the catch of handleInit, then
\* setLoading(false)
InitFailsWith(id, err) ==
    /\ requests[id].kind = "init"
    /\ lastAlert' = "Initialization failed: " \o ErrorText(err)
    /\ errorMessage' =
         Live("Initialization failed. Please verify your settings.",
              errorMessage)
    /\ loading' = Live(FALSE, loading)
    /\ Settle(id)
    /\ UNCHANGED <<mounted, initialized, config, messages, input,
                   availableAgents, currentAgent, uploading, statusMessage,
                   issued, backend>>

InitFails(id) ==
    \E err \in Rejections(id) : InitFailsWith(id, err)

-----------------------------------------------------------------------------
(* The message box and handleSend *)

\* onChange of the message box (disabled while loading)
SetInput(v) ==
    /\ ChatView
    /\ ~loading
    /\ input' = v
    /\ input' # input
    /\ UNCHANGED <<mounted, initialized, config, loading, messages,
                   availableAgents, currentAgent, uploading, statusMessage,
                   errorMessage, lastAlert, requests, issued, backend>>

\* the entry handleSend appends before the request: { role: 'user', content }
UserMsg(content) == [role |-> "user", content |-> content]

\* mutant of OptimisticAppend: the entry is appended twice
OptimisticAppendTwice(prev, userMsg) == Append(Append(prev, userMsg), userMsg)

\* setMessages(prev => [...prev, userMsg])
OptimisticAppend(prev, userMsg) == Append(prev, userMsg)

\* submit of the chat form (input and button are disabled while loading)
handleSend ==
    /\ ChatView
    /\ ~loading
    /\ IF Trim(input) = <<>>
       THEN UNCHANGED vars
       ELSE /\ messages' = OptimisticAppend(messages, UserMsg(input))
            /\ input' = <<>>
            /\ loading' = TRUE
            /\ Issue(Request("chat", null, input))
            /\ UNCHANGED <<mounted, initialized, config, availableAgents,
                           currentAgent, uploading, statusMessage,
                           errorMessage, lastAlert, backend>>

\* mutant of ReplaceMessages: the reply is appended to the local list
AppendMessages(prev, data) == prev \o data.messages

\* setMessages(res.data.messages)
ReplaceMessages(prev, data) == data.messages

\* mutant of ChatSucceeds: a successful send clears the error
ChatSucceedsClearsError(id) ==
    /\ requests[id].kind = "chat"
    /\ Resolves(id)
    /\ messages' = Live(ReplaceMessages(messages, requests[id].reply.data),
                        messages)
    /\ currentAgent' = Live(requests[id].reply.data.agent_name, currentAgent)
    /\ statusMessage' = Live("Response received.", statusMessage)
    /\ errorMessage' = Live("", errorMessage)
    /\ loading' = Live(FALSE, loading)
    /\ Settle(id)
    /\ UNCHANGED <<mounted, initialized, config, input, availableAgents,
                   uploading, lastAlert, issued, backend>>

\* POST /api/chat resolved
ChatSucceeds(id) ==
    /\ requests[id].kind = "chat"
    /\ Resolves(id)
    /\ messages' = Live(ReplaceMessages(messages, requests[id].reply.data),
                        messages)
    /\ currentAgent' = Live(requests[id].reply.data.agent_name, currentAgent)
    /\ statusMessage' = Live("Response received.", statusMessage)
    /\ loading' = Live(FALSE, loading)
    /\ Settle(id)
    /\ UNCHANGED <<mounted, initialized, config, input, availableAgents,
                   uploading, errorMessage, lastAlert, issued, backend>>

\* mutant of ChatFails: the catch also removes the last displayed entry
ChatFailsRollsBack(id) ==
    /\ requests[id].kind = "chat"
    /\ \E err \in Rejections(id) :
        lastAlert' = "Message failed: " \o ErrorText(err)
    /\ errorMessage' = Live("Message failed. Please try again.", errorMessage)
    /\ loading' = Live(FALSE, loading)
    /\ messages' = Live(IF messages = <<>> THEN <<>>
                        ELSE SubSeq(messages, 1, Len(messages) - 1), messages)
    /\ Settle(id)
    /\ UNCHANGED <<mounted, initialized, config, input, availableAgents,
                   currentAgent, uploading, statusMessage, issued, backend>>

\* POST /api/chat rejected with err: the catch of handleSend, then
\* setLoading(false)
ChatFailsWith(id, err) ==
    /\ requests[id].kind = "chat"
    /\ lastAlert' = "Message failed: " \o ErrorText(err)
    /\ errorMessage' = Live("Message failed. Please try again.", errorMessage)
    /\ loading' = Live(FALSE, loading)
    /\ Settle(id)
    /\ UNCHANGED <<mounted, initialized, config, messages, input,
                   availableAgents, currentAgent, uploading, statusMessage,
                   issued, backend>>

ChatFails(id) ==
    \E err \in Rejections(id) : ChatFailsWith(id, err)

-----------------------------------------------------------------------------
(* handleUpload *)

\* e.target.files of a file-selection event: a list, or no list at all
NoFileList == [present |-> FALSE, list |-> <<>>]
FileList(list) == [present |-> TRUE, list |-> list]
FileSelections == {NoFileList} \cup {FileList(list) : list \in FileLists}

\* mutant of handleUpload: the early return on an empty selection is missing
handleUploadNoGuard(files) ==
    /\ ChatView
    /\ ~uploading
    /\ uploading' = TRUE
    /\ Issue(Request("upload", null, files.list))
    /\ UNCHANGED <<mounted, initialized, config, loading, messages,
                   input, availableAgents, currentAgent,
                   statusMessage, errorMessage, lastAlert, backend>>

\* onChange of the file input (disabled while uploading)
handleUpload(files) ==
    /\ ChatView
    /\ ~uploading
    /\ IF ~files.present \/ Len(files.list) = 0
       THEN UNCHANGED vars
       ELSE /\ uploading' = TRUE
            /\ Issue(Request("upload", null, files.list))
            /\ UNCHANGED <<mounted, initialized, config, loading, messages,
                           input, availableAgents, currentAgent,
                           statusMessage, errorMessage, lastAlert, backend>>

\* POST /api/upload resolved
UploadSucceeds(id) ==
    /\ requests[id].kind = "upload"
    /\ Resolves(id)
    /\ LET names == requests[id].reply.data.uploaded_files
       IN  /\ lastAlert' = "Uploaded: " \o Join(names)
           /\ statusMessage' =
                Live("Uploaded " \o ToString(Len(names)) \o " file(s).",
                     statusMessage)
    /\ uploading' = Live(FALSE, uploading)
    /\ Settle(id)
    /\ UNCHANGED <<mounted, initialized, config, loading, messages, input,
                   availableAgents, currentAgent, errorMessage, issued,
                   backend>>

\* POST /api/upload rejected with err: the catch of handleUpload, then
\* setUploading(false)
UploadFailsWith(id, err) ==
    /\ requests[id].kind = "upload"
    /\ lastAlert' = "Upload failed: " \o ErrorText(err)
    /\ errorMessage' = Live("Upload failed. Please retry.", errorMessage)
    /\ uploading' = Live(FALSE, uploading)
    /\ Settle(id)
    /\ UNCHANGED <<mounted, initialized, config, loading, messages, input,
                   availableAgents, currentAgent, statusMessage, issued,
                   backend>>

UploadFails(id) ==
    \E err \in Rejections(id) : UploadFailsWith(id, err)

-----------------------------------------------------------------------------
(* The other controls of the chat view *)

\* the 'Clear view' button: onClick={() => setMessages([])}
ClearView ==
    /\ ChatView
    /\ messages # <<>>
    /\ messages' = <<>>
    /\ UNCHANGED <<mounted, initialized, config, loading, input,
                   availableAgents, currentAgent, uploading, statusMessage,
                   errorMessage, lastAlert, requests, issued, backend>>

\* the 'Copy' button of a message: the clipboard write succeeds or throws
handleCopyMessage(copied) ==
    /\ ChatView
    /\ messages # <<>>
    /\ IF copied
       THEN /\ statusMessage' = "Message copied to clipboard."
            /\ UNCHANGED errorMessage
       ELSE /\ errorMessage' = "Unable to copy."
            /\ UNCHANGED statusMessage
    /\ UNCHANGED <<mounted, initialized, config, loading, messages, input,
                   availableAgents, currentAgent, uploading, lastAlert,
                   requests, issued, backend>>

\* the status banner of the chat view
renderStatus ==
    IF errorMessage # "" THEN errorMessage
    ELSE IF statusMessage # "" THEN statusMessage
    ELSE IF loading \/ uploading THEN "Working on your request..."
    ELSE null

\* the component is torn down; its requests stay in flight
Unmount ==
    /\ mounted
    /\ mounted' = FALSE
    /\ UNCHANGED <<clientState, lastAlert, requests, issued, backend>>

-----------------------------------------------------------------------------
(* The backend handles a request *)

Reply(id, reply) ==
    requests' = [requests EXCEPT ![id].phase = "replied", ![id].reply = reply]

BackendState(id) ==
    /\ requests[id].kind = "state"
    /\ requests[id].phase = "sent"
    /\ \/ Reply(id, StateReply(backend))
       \/ Reply(id, StateUnavailable)
    /\ UNCHANGED backend

BackendInit(id) ==
    /\ requests[id].kind = "init"
    /\ requests[id].phase = "sent"
    /\ \/ /\ backend' = InitAccepted(backend, requests[id].body)
          /\ Reply(id, Ok(null))
       \/ /\ \E d \in InitDetails : Reply(id, Fail(HttpError(d)))
          /\ UNCHANGED backend

BackendChat(id) ==
    /\ requests[id].kind = "chat"
    /\ requests[id].phase = "sent"
    /\ IF backend.initialized
       THEN \E i \in DOMAIN Agents :
              /\ backend' = ChatAccepted(backend, requests[id].body, Agents[i])
              /\ Reply(id, ChatReply(backend'))
       ELSE /\ Reply(id, NotInitialized)
            /\ UNCHANGED backend

BackendUpload(id) ==
    /\ requests[id].kind = "upload"
    /\ requests[id].phase = "sent"
    /\ IF backend.initialized
       THEN Reply(id, UploadReply(requests[id].body))
       ELSE Reply(id, NotInitialized)
    /\ UNCHANGED backend

\* the backend process is restarted and its session is gone
BackendRestart ==
    /\ backend.initialized
    /\ backend' = FreshBackend
    /\ UNCHANGED requests

Backend ==
    /\ \/ \E id \in InFlight :
             \/ BackendState(id)
             \/ BackendInit(id)
             \/ BackendChat(id)
             \/ BackendUpload(id)
       \/ BackendRestart
    /\ UNCHANGED <<mounted, clientState, lastAlert, issued>>

-----------------------------------------------------------------------------

Next ==
    \/ RefreshState
    \/ \E id \in InFlight : CheckStateSucceeds(id)
    \/ \E id \in InFlight : CheckStateFails(id)
    \/ \E f \in ConfigFields : \E v \in FieldValues[f] : SetConfig(f, v)
    \/ handleInit
    \/ \E id \in InFlight : InitSucceeds(id)
    \/ \E id \in InFlight : InitFails(id)
    \/ \E v \in Inputs : SetInput(v)
    \/ handleSend
    \/ \E id \in InFlight : ChatSucceeds(id)
    \/ \E id \in InFlight : ChatFails(id)
    \/ \E files \in FileSelections : handleUpload(files)
    \/ \E id \in InFlight : UploadSucceeds(id)
    \/ \E id \in InFlight : UploadFails(id)
    \/ ClearView
    \/ \E copied \in BOOLEAN : handleCopyMessage(copied)
    \/ Backend

\* the component stays mounted for the lifetime of the page
Spec == Init /\ [][Next]_vars

\* the component can also be torn down while requests are in flight
NextTeardown == Next \/ Unmount

SpecTeardown == Init /\ [][NextTeardown]_vars

TypeOK ==
    /\ mounted \in BOOLEAN /\ initialized \in BOOLEAN
    /\ loading \in BOOLEAN /\ uploading \in BOOLEAN
    /\ input \in Inputs
    /\ issued \in 1..MaxRequests
    /\ Cardinality(InFlight) <= issued

-----------------------------------------------------------------------------
(* Properties *)

Last(seq) == seq[Len(seq)]
Front(seq) == SubSeq(seq, 1, Len(seq) - 1)

\* the state-changing calls: init, chat and upload
Mutating == InFlightOf("init") \cup InFlightOf("chat") \cup InFlightOf("upload")

\* C1: at most one state-changing backend call (init, chat, upload) is in
\* flight in every reachable state; a second user action is never
\* interleaved with an unresolved one.
C1_AtMostOneMutatingCall == Cardinality(Mutating) <= 1

\* C2: a state refresh (checkState from mount or from 'Refresh state') is
\* never in flight together with a chat, upload or init request.
C2_RefreshNeverOverlaps ==
    \A id \in InFlightOf("state") :
        requests[id].origin \in {"mount", "refresh"} => Mutating = {}

\* C3: when a chat request succeeds, the displayed list is exactly the list
\* of that response (the optimistic entry is not kept in addition, nothing is
\* merged) and currentAgent is the response's agent_name.
C3_ChatSuccessReplaces ==
    [][\A id \in InFlight :
         (mounted /\ ChatSucceeds(id)) =>
             /\ messages' = requests[id].reply.data.messages
             /\ currentAgent' = requests[id].reply.data.agent_name]_vars

C3_Witness ==
    /\ mounted
    /\ statusMessage = "Response received."
    /\ ~loading
    /\ Len(messages) = 2
    /\ messages = backend.messages
    /\ messages[1].role = "user"
    /\ currentAgent = "browser"

\* a history as the backend returns it: user turns, each answered
IsBackendHistory(ms) ==
    /\ Len(ms) % 2 = 0
    /\ \A i \in DOMAIN ms :
         ms[i].role = (IF i % 2 = 1 THEN "user" ELSE "assistant")

\* C4: the displayed list is a list returned by the backend, or such a list
\* followed by exactly one client-made user entry whose chat request is
\* still in flight.
C4_DisplayedIsBackendPlusOneOptimistic ==
    mounted =>
        \/ IsBackendHistory(messages)
        \/ /\ messages # <<>>
           /\ IsBackendHistory(Front(messages))
           /\ Last(messages).role = "user"
           /\ \E id \in InFlightOf("chat") :
                requests[id].body = Last(messages).content

\* C5: a successful initialization is reported only when the client has
\* reached Ready: it never holds the success status while it is still in the
\* setup view.
C5_InitSuccessEndsReady ==
    (mounted /\ statusMessage = "Session initialized successfully.")
        => initialized

\* C6: every successful fetchState replaces the snapshot as a whole by the
\* response: the four fields equal the response's, and a response with
\* initialized=false leaves initialized=false, no messages, no agents and no
\* current agent.
C6_SnapshotReplacedWhole ==
    [][\A id \in InFlight :
         (mounted /\ CheckStateSucceeds(id)) =>
             LET data == requests[id].reply.data
             IN  /\ initialized' = data.initialized
                 /\ messages' = data.messages
                 /\ availableAgents' = data.available_agents
                 /\ currentAgent' = data.agent_name]_vars

\* C7 as stated: when a chat request fails, loading is false, the optimistic
\* entry of that request is the last entry of the displayed list and an error
\* indicator is set.
C7_OptimisticEntryStillLast ==
    [][\A id \in InFlight :
         (mounted /\ ChatFails(id)) =>
             /\ ~loading'
             /\ messages' # <<>>
             /\ Last(messages') = UserMsg(requests[id].body)
             /\ errorMessage' # ""]_vars

\* C7 as amended: when a chat request fails, loading is false, the displayed
\* list is left exactly as it was just before the failure (no rollback) and
\* an error indicator is set.
C7_FailureKeepsDisplayedList ==
    [][\A id \in InFlight :
         (mounted /\ ChatFails(id)) =>
             /\ ~loading'
             /\ messages' = messages
             /\ errorMessage' # ""]_vars

C7_Witness ==
    /\ mounted
    /\ errorMessage = "Message failed. Please try again."
    /\ ~loading
    /\ InFlightOf("chat") = {}
    /\ messages # <<>>
    /\ Last(messages).role = "user"

\* the requests that keep `loading` set: an init, the checkState that
\* handleInit awaits, a chat
HoldsLoading(r) ==
    r.kind \in {"init", "chat"} \/ (r.kind = "state" /\ r.origin = "init")

\* C8: every call that resolves, by success or by failure, returns the
\* client to an interactive state: when handleInit or handleSend finishes
\* loading is false, when handleUpload finishes uploading is false, and no
\* busy flag is set while no corresponding request is in flight.
C8_BusyOnlyWhileInFlight ==
    mounted =>
        LET holders == {id \in InFlight : HoldsLoading(requests[id])}
        IN  /\ Cardinality(holders) <= 1
            /\ Cardinality(InFlightOf("upload")) <= 1
            /\ loading => holders # {}
            /\ uploading => InFlightOf("upload") # {}

C8_Witness ==
    /\ mounted
    /\ initialized
    /\ ~loading
    /\ ~uploading
    /\ InFlight = {}
    /\ errorMessage # ""
    /\ statusMessage = "Response received."

\* C9: a request that resolves after the component has been torn down is a
\* no-op: it changes no client state and surfaces nothing to the operator.
C9_LateResultIsNoOp ==
    [][~mounted => (clientState' = clientState /\ lastAlert' = lastAlert)]_vars

\* a string that is empty or only whitespace
Blank(s) == \A i \in DOMAIN s : s[i] = " "

\* C10: submitting an empty or whitespace-only message issues no chat
\* request and leaves the whole state unchanged.
C10_BlankSubmitIsNoOp ==
    /\ [](\A id \in InFlightOf("chat") : ~Blank(requests[id].body))
    /\ [][(Blank(input) /\ handleSend) => UNCHANGED vars]_vars

C10_Witness ==
    /\ ChatView
    /\ ~loading
    /\ input = <<" ", " ">>
    /\ InFlightOf("chat") = {}

\* C11: a file-selection event with zero files, or with no file list, issues
\* no upload request, does not set uploading and leaves the state unchanged.
C11_EmptySelectionIsNoOp ==
    /\ [](\A id \in InFlightOf("upload") : Len(requests[id].body) > 0)
    /\ [](mounted /\ uploading => InFlightOf("upload") # {})
    /\ [][\A files \in FileSelections :
            (/\ ~files.present \/ files.list = <<>>
             /\ issued' = issued
             /\ handleUpload(files))
                => UNCHANGED vars]_vars

C11_Witness ==
    /\ ChatView
    /\ ~uploading
    /\ InFlightOf("upload") = {}
    /\ statusMessage = ""
    /\ lastAlert = ""

\* C12 as stated: while a chat request is unresolved the client is in
\* Busy(Sending) and the displayed list is the list displayed before the
\* submission followed by one user entry with the submitted content, so that
\* entry is the last one displayed.
C12_OptimisticEntryWhileInFlight ==
    mounted =>
        \A id \in InFlightOf("chat") :
            /\ loading
            /\ messages # <<>>
            /\ Last(messages) = UserMsg(requests[id].body)

\* C12 as amended: right after the submission of a non-blank message the
\* displayed list is the list displayed before followed by exactly one user
\* entry with the submitted content and loading is true; loading stays true
\* until the request resolves.
C12_SubmitAppendsOneEntry ==
    /\ [](mounted /\ InFlightOf("chat") # {} => loading)
    /\ [][(mounted /\ ~Blank(input) /\ handleSend) =>
            /\ messages' = Append(messages, UserMsg(input))
            /\ loading']_vars

C12_Witness ==
    /\ mounted
    /\ loading
    /\ Len(messages) = 3
    /\ \E id \in InFlightOf("chat") :
          /\ requests[id].phase = "sent"
          /\ messages[3] = UserMsg(requests[id].body)
    /\ SubSeq(messages, 1, 2) = backend.messages

\* C13: from the moment handleInit issues the init request config never
\* changes again: the config the client holds equals the config that was sent
\* to the backend.
C13_ConfigFrozenAtInit ==
    mounted => \A id \in InFlightOf("init") : config = requests[id].body

\* C14: initialized starts false and, once true, stays true in every later
\* state, whatever refreshes, sends, uploads and failures follow; so it
\* changes from false to true at most once.
C14_InitializedIsMonotone ==
    /\ ~initialized
    /\ [][initialized => initialized']_vars

C14_Witness ==
    /\ mounted
    /\ initialized
    /\ ~backend.initialized
    /\ InFlight = {}
    /\ issued >= 2
    /\ statusMessage = ""
    /\ errorMessage = ""
    /\ lastAlert = ""

\* the text the claims expect to be surfaced for an error: the detail of the
\* response when it carries one, otherwise the message of the transport error
Surfaced(err) == IF err.detail # null THEN err.detail ELSE err.message

\* C15: when the init request fails the error is surfaced with the backend's
\* detail verbatim when the response carries one (otherwise the transport
\* error's message), the client is back in Uninitialized (initialized=false,
\* loading=false), and messages, availableAgents, currentAgent and config are
\* unchanged.
C15_InitFailureReturnsToSetup ==
    [][\A id \in InFlight : \A err \in Rejections(id) :
         (/\ mounted
          /\ DOMAIN requests' = InFlight \ {id}
          /\ InitFailsWith(id, err))
             => /\ lastAlert' = "Initialization failed: " \o Surfaced(err)
                /\ ~initialized'
                /\ ~loading'
                /\ UNCHANGED <<messages, availableAgents, currentAgent,
                               config>>]_vars

\* the text a failure step surfaces: checkState sets the banner, the other
\* three handlers raise an alert
FailurePrefixes ==
    {"", "Initialization failed: ", "Message failed: ", "Upload failed: "}

\* C16: fetchState, initSession, sendMessage and uploadFiles report failure
\* the same way: when the failed response carries a structured detail, the
\* message surfaced to the operator is that detail.
C16_FailureSurfacesDetail ==
    [][\A id \in InFlight : \A err \in Rejections(id) :
         (/\ mounted
          /\ err.detail # null
          /\ DOMAIN requests' = InFlight \ {id}
          /\ \/ CheckStateFailsWith(id, err)
             \/ InitFailsWith(id, err)
             \/ ChatFailsWith(id, err)
             \/ UploadFailsWith(id, err))
             => \E p \in FailurePrefixes :
                    (IF requests[id].kind = "state"
                     THEN errorMessage' ELSE lastAlert') = p \o err.detail]_vars

\* C17 as stated: a failure of the state refresh issued on mount leaves the
\* client in the uninitialized setup view with loading=false and the default
\* config.
C17_MountFailureLeavesSetupDefaults ==
    [][\A id \in InFlight : \A err \in Rejections(id) :
         (/\ mounted
          /\ requests[id].origin = "mount"
          /\ DOMAIN requests' = InFlight \ {id}
          /\ CheckStateFailsWith(id, err))
             => /\ ~initialized'
                /\ ~loading'
                /\ config' = DefaultConfig]_vars

\* C17 as amended: a failure of the state refresh issued on mount changes
\* nothing but errorMessage; initialized, loading, config and the rest of the
\* client state are what they were, so when no request has been issued in
\* the meantime the client is in the setup view with loading=false and the
\* setup form can be submitted.
C17_MountFailureChangesOnlyBanner ==
    [][\A id \in InFlight : \A err \in Rejections(id) :
         (/\ mounted
          /\ requests[id].origin = "mount"
          /\ DOMAIN requests' = InFlight \ {id}
          /\ CheckStateFailsWith(id, err))
             => /\ errorMessage' = "Could not refresh the session state."
                /\ UNCHANGED <<initialized, loading, config, messages, input,
                               availableAgents, currentAgent, uploading,
                               statusMessage, lastAlert>>
                /\ issued = 1 => SetupView' /\ ~loading']_vars

C17_Witness ==
    /\ SetupView
    /\ ~loading
    /\ errorMessage = "Could not refresh the session state."
    /\ InFlight = {}
    /\ issued = 1
    /\ config # DefaultConfig

\* the client snapshot, and the snapshot a successful checkState leaves when
\* the backend reports an initialized session with data d
Snapshot == <<initialized, messages, availableAgents, currentAgent>>
SnapshotOf(d) == <<TRUE, d.messages, d.available_agents, d.agent_name>>

\* C18: checkState is idempotent on the client: when the snapshot is the one
\* a successful checkState left for the backend's answer d and nothing has
\* changed it since, a second successful checkState with the same answer d
\* leaves the same snapshot (an answer without a session changes nothing
\* either time).
C18_CheckStateIsIdempotent ==
    [][\A id \in InFlight :
         (/\ mounted
          /\ DOMAIN requests' = InFlight \ {id}
          /\ CheckStateSucceeds(id)
          /\ LET d == requests[id].reply.data
             IN  d.initialized => Snapshot = SnapshotOf(d))
             => Snapshot' = Snapshot]_vars

C18_Witness ==
    /\ mounted
    /\ issued = 2
    /\ InFlight = {}
    /\ backend.initialized
    /\ Snapshot = SnapshotOf(backend)
    /\ statusMessage = ""
    /\ errorMessage = ""
    /\ lastAlert = ""

\* the step applies a backend response that carries a message history
AppliesHistory(id) ==
    \/ ChatSucceeds(id)
    \/ CheckStateSucceeds(id) /\ requests[id].reply.data.initialized

\* C19: the displayed backend history never regresses: when the displayed
\* list is the backend's latest history, or the response being applied is the
\* last one outstanding, applying the response leaves the backend's latest
\* history displayed; no response produced before a later history was
\* applied replaces it with an older one.
C19_HistoryNeverRegresses ==
    [][\A id \in InFlight :
         (/\ mounted
          /\ backend.initialized
          /\ DOMAIN requests' = InFlight \ {id}
          /\ messages = backend.messages \/ InFlight = {id}
          /\ AppliesHistory(id))
             => messages' = backend.messages]_vars

\* C20: errorMessage is never reset: a failed refresh, init, send, upload or
\* copy leaves it non-empty, no later step empties it, and the status banner
\* shows errorMessage in preference to statusMessage, so the banner keeps
\* showing the error after later operations succeed.
C20_ErrorMessageNeverReset ==
    /\ [][errorMessage # "" => errorMessage' # ""]_vars
    /\ [](errorMessage # "" => renderStatus = errorMessage)
    /\ [][\A id \in InFlight : \A err \in Rejections(id) :
            (/\ mounted
             /\ DOMAIN requests' = InFlight \ {id}
             /\ \/ CheckStateFailsWith(id, err)
                \/ InitFailsWith(id, err)
                \/ ChatFailsWith(id, err)
                \/ UploadFailsWith(id, err))
                => errorMessage' # ""]_vars
    /\ [][(issued' = issued /\ handleCopyMessage(FALSE))
            => errorMessage' # ""]_vars

C20_Witness ==
    /\ mounted
    /\ errorMessage = "Upload failed. Please retry."
    /\ statusMessage = "Response received."
    /\ renderStatus = errorMessage
    /\ ~loading
    /\ ~uploading
    /\ InFlight = {}

====
